---- MODULE Spec2Model ----
(***************************************************************************)
(* A model of scan_browser_extensions (src/src/extensions.py): the Scanner *)
(* that detects Firefox, Chrome and Edge, walks every OS user's browser    *)
(* profiles and turns the artifacts it finds into ExtensionInfo records.   *)
(*                                                                         *)
(* Python strings are sequences of one-character strings, so that `in`,    *)
(* removeprefix, lower, replace and split are computed as Python computes  *)
(* them.  JSON values are tagged records: [t |-> "null"], "str", "num",    *)
(* "list", "dict".  A call that may raise returns [exc |-> <name>, ...],   *)
(* with exc = "none" when it returns normally.                             *)
(***************************************************************************)
EXTENDS Integers, Sequences, FiniteSets, TLC

VARIABLES
    platform,             \* sys.platform
    system_drive,         \* os.getenv("SystemDrive") is not None
    cwd_root,             \* the working directory is the filesystem root
    binaries,             \* the browsers whose binary is on the machine
    os_users,             \* psutil.users(), as usernames
    fs,                   \* fs[username][browser]: that user's browser directory
    stage,                \* where the process is
    has_firefox, has_chrome, has_edge,   \* Scanner's fields
    user_list,            \* get_extension_info's user_list
    ui,                   \* index of the next user of the running loader
    loader_list,          \* the running loader's extension_info_list
    result,               \* get_extension_info's extension_info_list
    raised,               \* the exception that ended the process, or "none"
    calls,                \* calls[b]: how often browser b's loader was invoked
    opened,               \* the open() calls of the running loader, in order
    arg, ret              \* argument and result of a function applied on its own

envVars  == <<platform, system_drive, cwd_root, binaries, os_users, fs>>
scanVars == <<stage, has_firefox, has_chrome, has_edge, user_list, ui,
              loader_list, result, raised, calls, opened>>
vars     == <<envVars, scanVars, arg, ret>>

----------------------------------------------------------------------------
(* Bounds of the model. *)

MaxPerms == 2
MaxEntries == 2
MaxUsers == 2
MaxVersionLen == 4

----------------------------------------------------------------------------
(* Python strings. *)

S_clipboardWrite == <<"c","l","i","p","b","o","a","r","d","W","r","i","t","e">>
S_all_urls       == <<"<","a","l","l","_","u","r","l","s",">">>
S_tabs           == <<"t","a","b","s">>
S_cookies        == <<"c","o","o","k","i","e","s">>
S_wild           == <<":","/","/","*","/">>
S_https_wild     == <<"h","t","t","p","s",":","/","/","*","/">>
S_storage        == <<"s","t","o","r","a","g","e">>
S_MSG_prefix     == <<"_","_","M","S","G","_">>
S_MSG_suffix     == <<"_","_">>
S_MSG            == <<"M","S","G">>
S_MSG_foo        == <<"_","_","M","S","G","_","f","o","o","_","_">>
S_MSG_Foo        == <<"_","_","M","S","G","_","F","o","o","_","_">>
S_foo            == <<"f","o","o">>
S_Foo            == <<"F","o","o">>
S_other_key      == <<"o","t","h","e","r","_","k","e","y">>
S_Bar            == <<"B","a","r">>
S_Baz            == <<"B","a","z">>
S_None           == <<"N","o","n","e">>
S_empty          == <<>>
S_chrome_ext     == <<"c","h","r","o","m","e","-","e","x","t","e","n","s","i","o","n",":","/","/">>
S_https          == <<"h","t","t","p","s",":","/","/">>
S_colon          == <<":">>
S_Temp           == <<"T","e","m","p">>
S_rev            == <<"_","0">>
S_extension      == <<"e","x","t","e","n","s","i","o","n">>
S_app            == <<"a","p","p">>
S_v1             == <<"1",".","0">>
S_id_a           == <<"a","@","x">>
S_id_b           == <<"b","@","x">>
S_id_c           == <<"c","@","x">>
S_x_dev          == <<"x",".","d","e","v">>
S_y_work         == <<"y",".","w","o","r","k">>
S_nodot          == <<"n","o","d","o","t">>
S_notes          == <<"n","o","t","e","s",".","t","x","t">>
S_Default        == <<"D","e","f","a","u","l","t">>
S_P1             == <<"P","1">>
S_abc            == <<"a","b","c">>
S_def            == <<"d","e","f">>
S_ver            == <<"1","3","7",".","0",".","1","_","0">>
S_Ad             == <<"A","d">>
S_ext_abc        == S_chrome_ext \o <<"a","b","c">>
S_web_origin     == S_https \o <<"x",".","o","r","g">>
S_server_a       == S_https \o <<"a",".","i","o",":","4","4","3">>
S_server_b       == <<"h","t","t","p",":","/","/","b",".","i","o",":","8","0">>
S_host_c         == <<"c",".","i","o">>
S_x_dev_1        == <<"x",".","d","e","v",".","1">>
S_ghi            == <<"g","h","i">>
S_jkl            == <<"j","k","l">>
S_mno            == <<"m","n","o">>
S_v2             == <<"2",".","0">>
S_theme          == <<"t","h","e","m","e">>
S_ext_json       == <<"e","x","t","e","n","s","i","o","n","s",".","j","s","o","n">>

\* a[i..j] in Python's terms: the slice of s from position i (1-based) of length n
Slice(s, i, n) == SubSeq(s, i, i + n - 1)

\* sub in s
StrContains(s, sub) ==
    \E i \in 1..(Len(s) - Len(sub) + 1) : Slice(s, i, Len(sub)) = sub

\* s.startswith(p), s.endswith(p)
StartsWith(s, p) == Len(p) <= Len(s) /\ Slice(s, 1, Len(p)) = p
EndsWith(s, p)   == Len(p) <= Len(s) /\ Slice(s, Len(s) - Len(p) + 1, Len(p)) = p

\* s.removeprefix(p), s.removesuffix(p)
RemovePrefix(s, p) == IF StartsWith(s, p) THEN Slice(s, Len(p) + 1, Len(s) - Len(p)) ELSE s
RemoveSuffix(s, p) == IF Len(p) > 0 /\ EndsWith(s, p) THEN Slice(s, 1, Len(s) - Len(p)) ELSE s

\* s.replace(old, new): every occurrence, left to right, not overlapping
RECURSIVE Replace(_, _, _)
Replace(s, old, new) ==
    IF Len(s) = 0 \/ Len(old) = 0 THEN s
    ELSE IF StartsWith(s, old)
         THEN new \o Replace(Slice(s, Len(old) + 1, Len(s) - Len(old)), old, new)
         ELSE <<s[1]>> \o Replace(Tail(s), old, new)

\* s.split(sep)[0]: what precedes the first sep, s when there is none
RECURSIVE SplitFirst(_, _)
SplitFirst(s, sep) ==
    IF Len(s) = 0 \/ StartsWith(s, sep) THEN <<>>
    ELSE <<s[1]>> \o SplitFirst(Tail(s), sep)

\* s.split(sep)[-1]: what follows the last sep, s when there is none
RECURSIVE SplitLast(_, _)
SplitLast(s, sep) ==
    IF ~StrContains(s, sep) THEN s
    ELSE IF StartsWith(s, sep)
         THEN SplitLast(Slice(s, Len(sep) + 1, Len(s) - Len(sep)), sep)
         ELSE SplitLast(Tail(s), sep)

\* s.split(sep), for a one-character sep: the pieces, in order
RECURSIVE Split(_, _)
Split(s, sep) ==
    IF ~StrContains(s, <<sep>>) THEN <<s>>
    ELSE <<SplitFirst(s, <<sep>>)>>
         \o Split(Slice(s, Len(SplitFirst(s, <<sep>>)) + 2,
                        Len(s) - Len(SplitFirst(s, <<sep>>)) - 1), sep)

\* The characters of the model's file names, in code-point order.
CodeOrder ==
    <<" ", "-", ".", "/", "0", "1", "2", "3", "4", "5", "6", "7", "8", "9", ":",
      "A", "B", "C", "D", "E", "F", "G", "H", "I", "J", "K", "L", "M", "N", "O",
      "P", "Q", "R", "S", "T", "U", "V", "W", "X", "Y", "Z", "\\", "_",
      "a", "b", "c", "d", "e", "f", "g", "h", "i", "j", "k", "l", "m", "n", "o",
      "p", "q", "r", "s", "t", "u", "v", "w", "x", "y", "z">>

\* ord(c), up to an order-preserving renumbering
Ord(c) == CHOOSE i \in 1..Len(CodeOrder) : CodeOrder[i] = c

\* a < b, for Python strings
RECURSIVE StrLess(_, _)
StrLess(a, b) ==
    IF Len(b) = 0 THEN FALSE
    ELSE IF Len(a) = 0 THEN TRUE
    ELSE IF a[1] = b[1] THEN StrLess(Tail(a), Tail(b))
    ELSE Ord(a[1]) < Ord(b[1])

\* list.sort(), for a list of [key |-> a Python string, item |-> ...]:
\* insertion sort by key, stable
RECURSIVE InsertSorted(_, _)
InsertSorted(x, sorted) ==
    IF Len(sorted) = 0 THEN <<x>>
    ELSE IF StrLess(x.key, sorted[1].key) THEN <<x>> \o sorted
    ELSE <<sorted[1]>> \o InsertSorted(x, Tail(sorted))

\* A sort that leaves the list in the order the file system gave
SortByKey_unsorted(items) == items

RECURSIVE SortByKey(_)
SortByKey(items) ==
    IF Len(items) = 0 THEN <<>>
    ELSE InsertSorted(items[Len(items)], SortByKey(SubSeq(items, 1, Len(items) - 1)))

\* c.lower(), for one character
LowerChar(c) ==
    CASE c = "A" -> "a" [] c = "B" -> "b" [] c = "C" -> "c" [] c = "D" -> "d"
      [] c = "E" -> "e" [] c = "F" -> "f" [] c = "G" -> "g" [] c = "H" -> "h"
      [] c = "I" -> "i" [] c = "J" -> "j" [] c = "K" -> "k" [] c = "L" -> "l"
      [] c = "M" -> "m" [] c = "N" -> "n" [] c = "O" -> "o" [] c = "P" -> "p"
      [] c = "Q" -> "q" [] c = "R" -> "r" [] c = "S" -> "s" [] c = "T" -> "t"
      [] c = "U" -> "u" [] c = "V" -> "v" [] c = "W" -> "w" [] c = "X" -> "x"
      [] c = "Y" -> "y" [] c = "Z" -> "z" [] OTHER -> c

\* s.lower()
Lower(s) == [i \in 1..Len(s) |-> LowerChar(s[i])]

----------------------------------------------------------------------------
(* JSON values and Python objects. *)

JNone      == [t |-> "null"]
JStr(s)    == [t |-> "str", v |-> s]
JNum(n)    == [t |-> "num", v |-> n]
JList(xs)  == [t |-> "list", v |-> xs]
JDict(f)   == [t |-> "dict", v |-> f]

\* d.get(key, default) on a dict
DictGet(d, key, default) == IF key \in DOMAIN d.v THEN d.v[key] ELSE default

Ok(v)      == [exc |-> "none", val |-> v]
Raise(e)   == [exc |-> e]

\* r, then F of its value: an exception of r is the exception of the whole
Bind(r, F(_)) == IF r.exc # "none" THEN r ELSE F(r.val)

\* bool(x): None, 0, '', [] and {} are false
Truthy(x) ==
    CASE x.t = "null" -> FALSE
      [] x.t = "num"  -> x.v # 0
      [] x.t = "str"  -> Len(x.v) > 0
      [] x.t = "list" -> Len(x.v) > 0
      [] x.t = "dict" -> DOMAIN x.v # {}
      [] OTHER        -> TRUE

\* str(x), for the values a message field holds in the model: a string is
\* itself, None is 'None', a one-digit number is its digit.
DigitChar(n) == CASE n = 0 -> "0" [] n = 1 -> "1" [] n = 2 -> "2" [] n = 3 -> "3"
                  [] n = 4 -> "4" [] n = 5 -> "5" [] n = 6 -> "6" [] n = 7 -> "7"
                  [] n = 8 -> "8" [] OTHER -> "9"

PyStr(x) ==
    CASE x.t = "str"  -> x.v
      [] x.t = "null" -> S_None
      [] x.t = "num"  -> <<DigitChar(x.v)>>
      [] OTHER        -> <<"?">>

\* The dataclass Permission(permission, origins)
Permission(p, o) == [t |-> "Permission", permission |-> p, origins |-> o]

\* Permission.parse
Permission_parse(data) ==
    IF data = JNone THEN Ok(JNone)
    ELSE IF data.t = "dict"
         THEN Ok(Permission(DictGet(data, "permissions", JNone),
                            DictGet(data, "origins", JNone)))
         ELSE Raise("TypeError")

----------------------------------------------------------------------------
(* PermissionRiskClassifier: Scanner.__calculate_risk. *)

risky_permissions == <<S_clipboardWrite, S_all_urls, S_tabs, S_cookies, S_wild>>

\* The values `for permission in x` yields, for a JSON value x: the elements of
\* a list, the characters of a string.  (A dict would yield its keys; no
\* permissions value of the model is a dict.)  A number or a boolean is not
\* iterable.
IterItems(x) ==
    CASE x.t = "list" -> x.v
      [] x.t = "str"  -> [i \in 1..Len(x.v) |-> JStr(<<x.v[i]>>)]
      [] OTHER        -> <<>>

Iterable(x) == x.t \in {"list", "str"}

\* permission in risky_permissions: list membership, by equality
IsRisky(permission) ==
    /\ permission.t = "str"
    /\ \E i \in 1..Len(risky_permissions) : permission.v = risky_permissions[i]

calculate_risk(permissions) ==
    IF permissions # JNone /\ permissions.permission # JNone
    THEN IF ~Iterable(permissions.permission)
         THEN Raise("TypeError")
         ELSE LET items == IterItems(permissions.permission)
              IN  IF \E i \in 1..Len(items) : IsRisky(items[i])
                  THEN Ok("Flagged")
                  ELSE Ok("Clear")
    ELSE Ok("Clear")

----------------------------------------------------------------------------
(* LocaleResolver: Scanner.__parse_chrome_extension_name and               *)
(* Scanner.__parse_chrome_extension_description.  A catalog is a dict      *)
(* whose keys are Python strings.                                          *)

K_message == <<"m","e","s","s","a","g","e">>

\* The nested branch without its second lookup: the string itself.
NestedLookup_none(obj, messages) == Ok(obj.v)

\* temp = messages.get(obj, None); str(temp.get('message', None)) if temp else obj
NestedLookup(obj, messages) ==
    LET temp == DictGet(messages, obj.v, JNone)
    IN  IF Truthy(temp)
        THEN IF temp.t = "dict"
             THEN Ok(PyStr(DictGet(temp, K_message, JNone)))
             ELSE Raise("AttributeError")
        ELSE Ok(obj.v)

\* The body the two resolvers share, line for line.
ResolveField(field, messages) ==
    LET name_field == RemoveSuffix(RemovePrefix(field, S_MSG_prefix), S_MSG_suffix)
    IN  IF messages.t # "dict" THEN Raise("AttributeError")
        ELSE LET obj == DictGet(messages, Lower(name_field), JStr(name_field))
             IN  CASE obj.t = "dict" -> Ok(PyStr(DictGet(obj, K_message, JStr(S_empty))))
                   [] obj.t = "str"  -> NestedLookup(obj, messages)
                   [] OTHER          -> Raise("TypeError")

parse_chrome_extension_name(extension_name, messages) ==
    ResolveField(extension_name, messages)

parse_chrome_extension_description(extension_description, messages) ==
    ResolveField(extension_description, messages)

----------------------------------------------------------------------------
(* Files.  A file is missing, exists but cannot be opened (open raises an  *)
(* OSError), holds bytes that are not UTF-8 text, holds text that is not   *)
(* JSON, holds a JSON document cut short, or holds a JSON document.        *)

FMissing       == [t |-> "missing"]
FDenied        == [t |-> "denied"]
FBinary        == [t |-> "binary"]
FGarbage       == [t |-> "garbage"]
FTruncated(d)  == [t |-> "truncated", doc |-> d]
FText(d)       == [t |-> "json", doc |-> d]

\* os.path.exists(path)
Exists(f) == f.t # "missing"

\* with open(path, 'r', encoding='utf-8') as f: json.load(f)
ReadJson(f) ==
    CASE f.t = "missing"   -> Raise("FileNotFoundError")
      [] f.t = "denied"    -> Raise("PermissionError")
      [] f.t = "binary"    -> Raise("UnicodeDecodeError")
      [] f.t = "garbage"   -> Raise("JSONDecodeError")
      [] f.t = "truncated" -> Raise("JSONDecodeError")
      [] OTHER             -> Ok(f.doc)

\* isinstance(e, OSError)
IsOSError(e) == e \in {"FileNotFoundError", "PermissionError", "NotADirectoryError"}

----------------------------------------------------------------------------
(* ConnectionExtractor: Scanner.__decode and                               *)
(* Scanner.__get_chromium_connections.  An anonymization token is a JSON   *)
(* string [t |-> "token"]: b64 says whether base64 and UTF-8 decoding      *)
(* succeed, text is the decoded text.                                      *)

Token(text)  == [t |-> "token", b64 |-> "ok", text |-> text]
TokenBadB64  == [t |-> "token", b64 |-> "invalid", text |-> <<>>]
TokenBadUtf8 == [t |-> "token", b64 |-> "notutf8", text |-> <<>>]

Connection(d, a) == [domain_name |-> d, active |-> a]

\* Scanner.__decode: every exception is caught and gives None
decode(encoded) ==
    IF encoded.t = "token" /\ encoded.b64 = "ok"
    THEN IF StrContains(encoded.text, S_chrome_ext)
         THEN JStr(SplitLast(encoded.text, S_chrome_ext))
         ELSE JNone
    ELSE JNone

\* One element of a comprehension of __get_chromium_connections: Ok(JNone) for
\* an entry that gives no Connection.  key is 'server' or 'host'.
EntryConnection(entry, key, active) ==
    IF entry.t # "dict" THEN Raise("AttributeError")
    ELSE LET anon == DictGet(entry, "anonymization", JList(<<JNone>>))
         IN  CASE anon.t \in {"list", "str"} /\ Len(anon.v) = 0 -> Raise("IndexError")
               [] anon.t \in {"null", "num"}        -> Raise("TypeError")
               [] anon.t = "dict"                    -> Raise("KeyError")
               [] OTHER ->
                    LET first == IF anon.t = "list" THEN anon.v[1] ELSE TokenBadB64
                        value == DictGet(entry, key, JNone)
                    IN  IF Truthy(decode(first)) /\ Truthy(value)
                        THEN IF value.t # "str" THEN Raise("AttributeError")
                             ELSE IF active
                                  THEN Ok(Connection(SplitFirst(Replace(value.v, S_https, <<>>), S_colon), TRUE))
                                  ELSE Ok(Connection(value.v, FALSE))
                        ELSE Ok(JNone)

\* connections.extend(filter(None, [... for entry in entries]))
RECURSIVE Comprehension(_, _, _)
Comprehension(entries, key, active) ==
    IF Len(entries) = 0 THEN Ok(<<>>)
    ELSE LET head == EntryConnection(entries[1], key, active)
         IN  IF head.exc # "none" THEN head
             ELSE LET rest == Comprehension(Tail(entries), key, active)
                  IN  IF rest.exc # "none" THEN rest
                      ELSE Ok((IF head.val = JNone THEN <<>> ELSE <<head.val>>) \o rest.val)

\* The part of __get_chromium_connections after the file is parsed.
ExtractConnections(network_state) ==
    IF network_state.t # "dict" THEN Raise("AttributeError")
    ELSE LET net == DictGet(network_state, "net", JDict(<<>>))
         IN  IF net.t # "dict" THEN Raise("AttributeError")
             ELSE LET properties == DictGet(net, "http_server_properties", JDict(<<>>))
                  IN  IF properties.t # "dict" THEN Raise("AttributeError")
                      ELSE LET servers == DictGet(properties, "servers", JList(<<>>))
                               broken  == DictGet(properties, "broken_alternative_services", JList(<<>>))
                           IN  IF servers.t # "list" THEN Raise("TypeError")
                               ELSE LET a == Comprehension(servers.v, "server", TRUE)
                                    IN  IF a.exc # "none" THEN a
                                        ELSE IF broken.t # "list" THEN Raise("TypeError")
                                        ELSE LET b == Comprehension(broken.v, "host", FALSE)
                                             IN  IF b.exc # "none" THEN b
                                                 ELSE Ok(a.val \o b.val)

\* except (json.JSONDecodeError, OSError)
ConnectionsCaught(e) == e = "JSONDecodeError" \/ IsOSError(e)

\* An extractor that finds no connection in any profile.
get_chromium_connections_none(profile) == Ok(<<>>)

\* profile is the profile directory: [network |-> the file at
\* Network/Network Persistent State, legacy |-> the file at Network Persistent State]
get_chromium_connections(profile) ==
    IF ~Exists(profile.network) /\ ~Exists(profile.legacy) THEN Ok(<<>>)
    ELSE LET network_state_file == IF Exists(profile.network) THEN profile.network
                                   ELSE profile.legacy
             read == ReadJson(network_state_file)
         IN  IF read.exc # "none"
             THEN IF ConnectionsCaught(read.exc) THEN Ok(<<>>) ELSE read
             ELSE ExtractConnections(read.val)

----------------------------------------------------------------------------
(* The machine: platform, environment, binaries, and the directories of    *)
(* the users.                                                              *)
(*   a Firefox profile root: [t |-> "missing"], [t |-> "denied"] or        *)
(*     [t |-> "dir", entries |-> <<[name, is_dir, ext]>>], in the order    *)
(*     os.listdir gives them; ext is the file extensions.json              *)
(*   a Chromium user-data root: [t |-> "missing"] or [t |-> "dir",         *)
(*     local_state |-> file, profiles |-> [name |-> profile directory]]    *)
(*   a profile directory: [extensions, network, legacy], extensions being  *)
(*     [t |-> "missing"] or [t |-> "dir", entries |-> <<[name, is_dir,     *)
(*     versions |-> <<[name, manifest, en, en_US]>>]>>]                    *)
(*   a locale folder: [t |-> "missing"] or [t |-> "dir", files |-> <<>>]   *)

Browsers == {"firefox", "chrome", "edge"}

DMissing == [t |-> "missing"]
DDenied  == [t |-> "denied"]

\* shutil.which(name) is None
WhichIsNone(b) == b \notin binaries

\* Scanner.__is_firefox_installed, __is_chrome_installed, __is_edge_installed
is_installed(b) ==
    CASE platform = "win32" ->
            IF b # "edge" /\ ~system_drive THEN Raise("Exception")
            ELSE Ok(b \in binaries)
      [] platform \in {"linux", "darwin"} ->
            IF WhichIsNone(b) THEN Raise("TypeError") ELSE Ok(TRUE)
      [] OTHER -> Ok(FALSE)

\* Scanner.__get_firefox_profile_path and Scanner.__get_chrome_profile_path:
\* the path is absolute on win32 and relative to the working directory on
\* linux and darwin.
profile_path(username, b) ==
    CASE platform = "win32" ->
            IF ~system_drive THEN Raise("Exception")
            ELSE Ok([user |-> username, browser |-> b, relative |-> FALSE])
      [] platform \in {"linux", "darwin"} ->
            Ok([user |-> username, browser |-> b, relative |-> TRUE])
      [] OTHER -> Raise("UnboundLocalError")

get_firefox_profile_path(username) == profile_path(username, "firefox")

get_chrome_profile_path(username, browser) == profile_path(username, browser)

\* The directory a path names.
DirAt(path) ==
    IF path.relative /\ ~cwd_root THEN DMissing
    ELSE IF path.user \in DOMAIN fs THEN fs[path.user][path.browser]
    ELSE DMissing

\* os.sep
Sep == IF platform = "win32" THEN "\\" ELSE "/"

----------------------------------------------------------------------------
(* ExtensionInfo.  creator, homepage_url, active, install_date,            *)
(* update_date and path are copies of artifact values; the record of the   *)
(* model holds the other fields.                                           *)

ExtensionInfo(username, b, profile, extension_id, risk, name, version, extension_type, description, user_permissions, optional_permissions, connections) ==
    [username |-> username, browser_short |-> b, profile |-> profile,
     extension_id |-> extension_id, risk |-> risk, name |-> name,
     version |-> version, extension_type |-> extension_type,
     description |-> description, user_permissions |-> user_permissions,
     optional_permissions |-> optional_permissions, connections |-> connections]

\* The outcome of a part of a loader: the records it appended, and the
\* exception that ended it, "none" when it ran to its end.
Outcome(e, records) == [exc |-> e, records |-> records]

\* A call r, then the part F of a loader on its value
OBind(r, F(_)) == IF r.exc # "none" THEN Outcome(r.exc, <<>>) ELSE F(r.val)

\* extension_info_list.append(r's record), then the rest of the loop
Prepend(r, rest) ==
    IF r.exc # "none" THEN Outcome(r.exc, <<>>)
    ELSE Outcome(rest.exc, <<r.val>> \o rest.records)

\* One iteration of a loop, then the rest of it
OSeq(head, rest) ==
    IF head.exc # "none" THEN head
    ELSE Outcome(rest.exc, head.records \o rest.records)

----------------------------------------------------------------------------
(* FirefoxArtifactLoader: Scanner.__get_firefox_installed_extensions. *)

\* The key 'permissions' read for the risk flag.
FirefoxRiskKey == "permissions"

\* ExtensionInfo(...) for one addon of the file in profile directory dirname
firefox_record(username, dirname, addon) ==
    IF Len(Split(dirname, ".")) < 2 THEN Raise("IndexError")
    ELSE IF addon.t # "dict" THEN Raise("AttributeError")
    ELSE Bind(Permission_parse(DictGet(addon, FirefoxRiskKey, JNone)), LAMBDA forRisk :
         Bind(calculate_risk(forRisk), LAMBDA risk :
         IF DictGet(addon, "defaultLocale", JDict(<<>>)).t # "dict" THEN Raise("AttributeError")
         ELSE
         Bind(Permission_parse(DictGet(addon, "userPermissions", JNone)), LAMBDA user :
         Bind(Permission_parse(DictGet(addon, "optionalPermissions", JNone)), LAMBDA optional :
            Ok(ExtensionInfo(
                username, "Firefox", JStr(Split(dirname, ".")[2]),
                DictGet(addon, "id", JStr(S_empty)),
                risk,
                DictGet(DictGet(addon, "defaultLocale", JDict(<<>>)), "name", JStr(S_empty)),
                DictGet(addon, "version", JStr(S_empty)),
                DictGet(addon, "type", JStr(S_empty)),
                DictGet(DictGet(addon, "defaultLocale", JDict(<<>>)), "description", JStr(S_empty)),
                user, optional, JNone))))))

\* for addon in addons
RECURSIVE firefox_addons(_, _, _)
firefox_addons(username, dirname, addons) ==
    IF Len(addons) = 0 THEN Outcome("none", <<>>)
    ELSE Prepend(firefox_record(username, dirname, addons[1]),
                 firefox_addons(username, dirname, Tail(addons)))

\* data.get("addons", []) and the loop over it
firefox_data(username, dirname, data) ==
    IF data.t # "dict" THEN Outcome("AttributeError", <<>>)
    ELSE IF DictGet(data, "addons", JList(<<>>)).t \in {"null", "num"}
         THEN Outcome("TypeError", <<>>)
    ELSE IF DictGet(data, "addons", JList(<<>>)).t = "dict" THEN Outcome("none", <<>>)
    ELSE firefox_addons(username, dirname, IterItems(DictGet(data, "addons", JList(<<>>))))

\* The body of `for ext_file in ext_files`, for the file of one profile directory
firefox_file(username, entry) ==
    OBind(ReadJson(entry.ext), LAMBDA data : firefox_data(username, entry.name, data))

\* for ext_file in ext_files
RECURSIVE firefox_files(_, _)
firefox_files(username, ext_files) ==
    IF Len(ext_files) = 0 THEN Outcome("none", <<>>)
    ELSE OSeq(firefox_file(username, ext_files[1].item),
              firefox_files(username, Tail(ext_files)))

\* ext_files of one user: the extensions.json of every subdirectory that has
\* one, sorted by full path
IsProfileWithFile(entry) == entry.is_dir /\ Exists(entry.ext)

firefox_ext_files(entries) ==
    LET found == SelectSeq(entries, IsProfileWithFile)
    IN  SortByKey([i \in 1..Len(found) |->
                     [key |-> found[i].name \o <<Sep>>, item |-> found[i]]])

\* os.listdir(profiles_path) and what follows it
firefox_root(username, root) ==
    CASE root.t = "missing" -> Outcome("FileNotFoundError", <<>>)
      [] root.t = "denied"  -> Outcome("PermissionError", <<>>)
      [] OTHER -> firefox_files(username, firefox_ext_files(root.entries))

\* One iteration of `for username in usernames` of the Firefox loader
firefox_user(username) ==
    OBind(get_firefox_profile_path(username), LAMBDA path :
          firefox_root(username, DirAt(path)))

----------------------------------------------------------------------------
(* ChromiumArtifactLoader: Scanner.__get_chromium_installed_extensions. *)

browser_short(b) == IF b = "chrome" THEN "Chrome" ELSE "Edge"

\* "MSG" in extension_name
HasMSG(extension_name) ==
    CASE extension_name.t = "str"  -> Ok(StrContains(extension_name.v, S_MSG))
      [] extension_name.t = "list" ->
            Ok(\E i \in 1..Len(extension_name.v) : extension_name.v[i] = JStr(S_MSG))
      [] OTHER -> Raise("TypeError")

\* The catalog of a version directory: the first file of _locales/en, of
\* _locales/en-US when there is no _locales/en
load_messages(version_dir) ==
    LET messages_folder == IF version_dir.en.t # "missing" THEN version_dir.en
                           ELSE version_dir.en_US
    IN  IF messages_folder.t = "missing" THEN Raise("FileNotFoundError")
        ELSE IF Len(messages_folder.files) = 0 THEN Raise("IndexError")
        ELSE ReadJson(messages_folder.files[1])

\* Name, description and kind of an extension: Ok(<<name, description, type>>)
texts_of(extension_name, extension_description, version_dir) ==
    Bind(HasMSG(extension_name), LAMBDA msg :
        IF ~msg
        THEN Ok(<<extension_name, extension_description, JStr(S_extension)>>)
        ELSE Bind(load_messages(version_dir), LAMBDA messages :
            IF extension_name.t # "str" THEN Raise("AttributeError")
            ELSE Bind(parse_chrome_extension_name(extension_name.v, messages), LAMBDA n :
                IF extension_description.t # "str" THEN Raise("AttributeError")
                ELSE Bind(parse_chrome_extension_description(extension_description.v, messages),
                          LAMBDA d : Ok(<<JStr(n), JStr(d), JStr(S_app)>>)))))

resolve_texts(manifest, version_dir) ==
    texts_of(DictGet(manifest, "name", JStr(S_empty)),
             DictGet(manifest, "description", JStr(S_empty)), version_dir)

\* perms = dict({'permissions': ..., 'origins': ...})
manifest_perms(manifest) ==
    JDict([permissions |-> DictGet(manifest, "permissions", JNone),
           origins |-> DictGet(manifest, "hostPermissions", JNone)])

\* extension_version.replace('_0', '')
strip_version(extension_version) == Replace(extension_version, S_rev, S_empty)

\* The body of `for extension_folder in extension_folders`, from the manifest on
chromium_manifest(username, b, profile, profile_dir, folder, manifest) ==
    IF manifest.t # "dict" THEN Raise("AttributeError")
    ELSE Bind(resolve_texts(manifest, folder.versions[1]), LAMBDA texts :
         Bind(get_chromium_connections(profile_dir), LAMBDA connections :
         Bind(Permission_parse(manifest_perms(manifest)), LAMBDA permission :
         Bind(calculate_risk(permission), LAMBDA risk :
            Ok(ExtensionInfo(
                username, browser_short(b), JStr(profile), JStr(folder.name),
                risk, texts[1], JStr(strip_version(folder.versions[1].name)),
                texts[3], texts[2], permission, Permission(JNone, JNone),
                connections))))))

\* The body of `for extension_folder in extension_folders`
chromium_record(username, b, profile, profile_dir, folder) ==
    IF ~folder.is_dir THEN Raise("NotADirectoryError")
    ELSE IF Len(folder.versions) = 0 THEN Raise("IndexError")
    ELSE Bind(ReadJson(folder.versions[1].manifest), LAMBDA manifest :
              chromium_manifest(username, b, profile, profile_dir, folder, manifest))

\* for extension_folder in extension_folders
RECURSIVE chromium_folders(_, _, _, _, _)
chromium_folders(username, b, profile, profile_dir, folders) ==
    IF Len(folders) = 0 THEN Outcome("none", <<>>)
    ELSE Prepend(chromium_record(username, b, profile, profile_dir, folders[1].item),
                 chromium_folders(username, b, profile, profile_dir, Tail(folders)))

\* extension_folders: the children of Extensions except 'Temp', sorted by name
NotTemp(entry) == entry.name # S_Temp

extension_folders(entries) ==
    LET kept == SelectSeq(entries, NotTemp)
    IN  SortByKey([i \in 1..Len(kept) |-> [key |-> kept[i].name, item |-> kept[i]]])

\* The body of `for profile in chrome_profiles`
chromium_profile(username, b, root, profile) ==
    IF profile \notin DOMAIN root.profiles THEN Outcome("none", <<>>)
    ELSE LET profile_dir == root.profiles[profile]
         IN  IF profile_dir.extensions.t = "missing" THEN Outcome("none", <<>>)
             ELSE chromium_folders(username, b, profile, profile_dir,
                                   extension_folders(profile_dir.extensions.entries))

\* for profile in chrome_profiles: an exception ends the loop
RECURSIVE chromium_profiles(_, _, _, _)
chromium_profiles(username, b, root, profiles) ==
    IF Len(profiles) = 0 THEN Outcome("none", <<>>)
    ELSE OSeq(chromium_profile(username, b, root, profiles[1]),
              chromium_profiles(username, b, root, Tail(profiles)))

\* local_state.get('profile').get('info_cache').keys()
chrome_profiles(local_state) ==
    IF local_state.t # "dict" THEN Raise("AttributeError")
    ELSE LET profile == DictGet(local_state, "profile", JNone)
         IN  IF profile.t # "dict" THEN Raise("AttributeError")
             ELSE LET info_cache == DictGet(profile, "info_cache", JNone)
                  IN  IF info_cache.t # "dict" THEN Raise("AttributeError")
                      ELSE Ok(info_cache.order)

\* The try block of one iteration of `for username in usernames`, in the
\* user-data root `root`
chromium_try(username, b, root) ==
    IF root.t = "missing" THEN Outcome("FileNotFoundError", <<>>)
    ELSE OBind(ReadJson(root.local_state), LAMBDA local_state :
         OBind(chrome_profiles(local_state), LAMBDA profiles :
               chromium_profiles(username, b, root, profiles)))

\* A handler that catches only the failures of opening a file.
ChromiumCaught_oserror(e) == IsOSError(e)

\* except Exception: every exception of the try block is caught and logged
ChromiumCaught(e) == TRUE

\* try: ... except Exception: what the records appended so far and the
\* exception become
Caught(tried) ==
    IF tried.exc # "none" /\ ChromiumCaught(tried.exc)
    THEN Outcome("none", tried.records)
    ELSE tried

\* One iteration of `for username in usernames` of the Chromium loader: the
\* path is resolved outside the try block
chromium_user(username, b) ==
    OBind(get_chrome_profile_path(username, b), LAMBDA path :
          Caught(chromium_try(username, b, DirAt(path))))

----------------------------------------------------------------------------
(* The open() calls of one iteration of a loader, in the order they are    *)
(* made. A call is [user, kind, profile, folder]: the user whose directory *)
(* holds the file, the file's name, and the profile and the extension      *)
(* folder it lies in (empty where the path has none). A call that fails is *)
(* a call too.                                                             *)

Opened(username, kind, profile, folder) ==
    [user |-> username, kind |-> kind, profile |-> profile, folder |-> folder]

\* for ext_file in ext_files: with open(ext_file): the loop ends at the first
\* iteration that raises
RECURSIVE firefox_opens_files(_, _)
firefox_opens_files(username, ext_files) ==
    IF Len(ext_files) = 0 THEN <<>>
    ELSE <<Opened(username, "extensions.json", ext_files[1].item.name, S_empty)>>
         \o IF firefox_file(username, ext_files[1].item).exc # "none" THEN <<>>
            ELSE firefox_opens_files(username, Tail(ext_files))

firefox_opens(username) ==
    IF get_firefox_profile_path(username).exc # "none" THEN <<>>
    ELSE IF DirAt(get_firefox_profile_path(username).val).t # "dir" THEN <<>>
    ELSE firefox_opens_files(username,
             firefox_ext_files(DirAt(get_firefox_profile_path(username).val).entries))

\* __get_chromium_connections: with open(network_state_file), when one of
\* the two paths exists
connections_opens(username, profile, profile_dir) ==
    IF Exists(profile_dir.network)
    THEN <<Opened(username, "Network/Network Persistent State", profile, S_empty)>>
    ELSE IF Exists(profile_dir.legacy)
    THEN <<Opened(username, "Network Persistent State", profile, S_empty)>>
    ELSE <<>>

\* with open(os.path.join(messages_folder, messages_file)), in the MSG branch
messages_opens(username, profile, folder, manifest) ==
    IF HasMSG(DictGet(manifest, "name", JStr(S_empty))) # Ok(TRUE) THEN <<>>
    ELSE IF folder.versions[1].en.t = "missing" /\ folder.versions[1].en_US.t = "missing"
    THEN <<>>
    ELSE IF Len((IF folder.versions[1].en.t # "missing" THEN folder.versions[1].en
                 ELSE folder.versions[1].en_US).files) = 0 THEN <<>>
    ELSE <<Opened(username, "messages", profile, folder.name)>>

\* The body of `for extension_folder in extension_folders`: the manifest,
\* the catalog in the MSG branch, then the network state
manifest_opens(username, profile, profile_dir, folder, manifest) ==
    IF manifest.exc # "none" THEN <<>>
    ELSE IF manifest.val.t # "dict" THEN <<>>
    ELSE messages_opens(username, profile, folder, manifest.val)
         \o IF resolve_texts(manifest.val, folder.versions[1]).exc # "none" THEN <<>>
            ELSE connections_opens(username, profile, profile_dir)

record_opens(username, profile, profile_dir, folder) ==
    IF ~folder.is_dir \/ Len(folder.versions) = 0 THEN <<>>
    ELSE <<Opened(username, "manifest.json", profile, folder.name)>>
         \o manifest_opens(username, profile, profile_dir, folder,
                           ReadJson(folder.versions[1].manifest))

\* for extension_folder in extension_folders
RECURSIVE folders_opens(_, _, _, _, _)
folders_opens(username, b, profile, profile_dir, folders) ==
    IF Len(folders) = 0 THEN <<>>
    ELSE record_opens(username, profile, profile_dir, folders[1].item)
         \o IF chromium_record(username, b, profile, profile_dir, folders[1].item).exc # "none"
            THEN <<>>
            ELSE folders_opens(username, b, profile, profile_dir, Tail(folders))

\* for profile in chrome_profiles
RECURSIVE profiles_opens(_, _, _, _)
profiles_opens(username, b, root, profiles) ==
    IF Len(profiles) = 0 THEN <<>>
    ELSE (IF profiles[1] \notin DOMAIN root.profiles THEN <<>>
          ELSE IF root.profiles[profiles[1]].extensions.t = "missing" THEN <<>>
          ELSE folders_opens(username, b, profiles[1], root.profiles[profiles[1]],
                   extension_folders(root.profiles[profiles[1]].extensions.entries)))
         \o IF chromium_profile(username, b, root, profiles[1]).exc # "none" THEN <<>>
            ELSE profiles_opens(username, b, root, Tail(profiles))

\* The try block: with open(local_state_path), then the profiles
try_opens(username, b, root, local_state) ==
    <<Opened(username, "Local State", S_empty, S_empty)>>
    \o IF local_state.exc # "none" THEN <<>>
       ELSE IF chrome_profiles(local_state.val).exc # "none" THEN <<>>
       ELSE profiles_opens(username, b, root, chrome_profiles(local_state.val).val)

chromium_opens(username, b) ==
    IF get_chrome_profile_path(username, b).exc # "none" THEN <<>>
    ELSE IF DirAt(get_chrome_profile_path(username, b).val).t = "missing"
    THEN <<Opened(username, "Local State", S_empty, S_empty)>>
    ELSE try_opens(username, b, DirAt(get_chrome_profile_path(username, b).val),
                   ReadJson(DirAt(get_chrome_profile_path(username, b).val).local_state))

\* The open() calls of one iteration of a loader's `for username in usernames`
loader_opens(b, username) ==
    IF b = "firefox" THEN firefox_opens(username) ELSE chromium_opens(username, b)

----------------------------------------------------------------------------
(* ScanOrchestrator: Scanner.__init__ and Scanner.get_extension_info.      *)
(* stage is "new" before the Scanner is constructed, "ready" after,        *)
(* "at_<browser>" at that browser's `if self.has_...`, "in_<browser>" in   *)
(* that browser's loader, "done" when get_extension_info has returned.     *)
(* An exception that nothing catches ends the process where it is:         *)
(* raised holds its name and no action is enabled.                         *)

At(b) == CASE b = "firefox" -> "at_firefox" [] b = "chrome" -> "at_chrome"
           [] OTHER -> "at_edge"

In(b) == CASE b = "firefox" -> "in_firefox" [] b = "chrome" -> "in_chrome"
           [] OTHER -> "in_edge"

\* What follows browser b's `if` in get_extension_info
After(b) == CASE b = "firefox" -> "at_chrome" [] b = "chrome" -> "at_edge"
              [] OTHER -> "done"

Has(b) == CASE b = "firefox" -> has_firefox [] b = "chrome" -> has_chrome
            [] OTHER -> has_edge

\* extension_info_list.extend(loader's list), put in front instead
Extend_front(list, more) == more \o list

\* extension_info_list.extend(loader's list)
Extend(list, more) == list \o more

\* if self.has_<browser>
Detected(b) == Has(b)

\* One iteration of a loader's `for username in usernames`
loader_user(b, username) ==
    IF b = "firefox" THEN firefox_user(username) ELSE chromium_user(username, b)

\* Scanner.__init__
Construct ==
    /\ stage = "new" /\ raised = "none"
    /\ LET f == is_installed("firefox")
           c == is_installed("chrome")
           e == is_installed("edge")
       IN  IF f.exc # "none" THEN raised' = f.exc /\ UNCHANGED <<stage, has_firefox, has_chrome, has_edge>>
           ELSE IF c.exc # "none"
                THEN /\ raised' = c.exc /\ has_firefox' = f.val
                     /\ UNCHANGED <<stage, has_chrome, has_edge>>
           ELSE IF e.exc # "none"
                THEN /\ raised' = e.exc /\ has_firefox' = f.val /\ has_chrome' = c.val
                     /\ UNCHANGED <<stage, has_edge>>
           ELSE /\ has_firefox' = f.val /\ has_chrome' = c.val /\ has_edge' = e.val
                /\ stage' = "ready" /\ UNCHANGED raised
    /\ UNCHANGED <<envVars, user_list, ui, loader_list, result, calls, opened,
                   arg, ret>>

\* get_extension_info, to its first `if`
GetUsers ==
    /\ stage = "ready" /\ raised = "none"
    /\ result' = <<>>
    /\ user_list' = os_users
    /\ stage' = "at_firefox"
    /\ UNCHANGED <<envVars, has_firefox, has_chrome, has_edge, ui, loader_list,
                   raised, calls, opened, arg, ret>>

\* `if self.has_<browser>` is false
SkipLoader ==
    /\ raised = "none"
    /\ \E b \in Browsers :
          /\ stage = At(b) /\ ~Detected(b)
          /\ stage' = After(b)
    /\ UNCHANGED <<envVars, has_firefox, has_chrome, has_edge, user_list, ui,
                   loader_list, result, raised, calls, opened, arg, ret>>

\* `if self.has_<browser>` is true: the loader is called
CallLoader ==
    /\ raised = "none"
    /\ \E b \in Browsers :
          /\ stage = At(b) /\ Detected(b)
          /\ calls' = [calls EXCEPT ![b] = @ + 1]
          /\ stage' = In(b)
    /\ loader_list' = <<>>
    /\ opened' = <<>>
    /\ ui' = 1
    /\ UNCHANGED <<envVars, has_firefox, has_chrome, has_edge, user_list,
                   result, raised, arg, ret>>

\* What an iteration with outcome out does to the loader's state
Iterate(out) ==
    /\ loader_list' = loader_list \o out.records
    /\ raised' = out.exc
    /\ ui' = IF out.exc = "none" THEN ui + 1 ELSE ui

\* One iteration of the running loader's loop over the users
LoaderUser ==
    /\ raised = "none"
    /\ \E b \in Browsers :
          /\ stage = In(b) /\ ui <= Len(user_list)
          /\ Iterate(loader_user(b, user_list[ui]))
          /\ opened' = opened \o loader_opens(b, user_list[ui])
    /\ UNCHANGED <<envVars, stage, has_firefox, has_chrome, has_edge, user_list,
                   result, calls, arg, ret>>

\* The running loader returns and get_extension_info extends its list
LoaderReturn ==
    /\ raised = "none"
    /\ \E b \in Browsers :
          /\ stage = In(b) /\ ui > Len(user_list)
          /\ stage' = After(b)
    /\ result' = Extend(result, loader_list)
    /\ UNCHANGED <<envVars, has_firefox, has_chrome, has_edge, user_list, ui,
                   loader_list, raised, calls, opened, arg, ret>>

Next ==
    \/ Construct
    \/ GetUsers
    \/ SkipLoader
    \/ CallLoader
    \/ LoaderUser
    \/ LoaderReturn

----------------------------------------------------------------------------
(* The artifacts of the model's machines. *)

\* All sequences over S of length at most n
RECURSIVE SeqsUpTo(_, _)
SeqsUpTo(S, n) ==
    IF n = 0 THEN {<<>>}
    ELSE LET shorter == SeqsUpTo(S, n - 1)
         IN  shorter \cup {Append(q, x) : q \in shorter, x \in S}

Message(s) == JDict(K_message :> JStr(s))


ServerEntry(server, anon) == JDict([server |-> JStr(server), anonymization |-> anon])
BrokenEntry(host, anon)   == JDict([host |-> JStr(host), anonymization |-> anon])

NetworkState(servers, broken) ==
    JDict([net |-> JDict([http_server_properties |->
        JDict([servers |-> JList(servers), broken_alternative_services |-> JList(broken)])])])

Users == {"alice", "bob"}

\* Firefox: addons, extensions.json files, profile roots
AddonBase(id) ==
    [id |-> JStr(id), version |-> JStr(S_v1), type |-> JStr(S_extension),
     defaultLocale |-> JDict([name |-> JStr(S_Ad), description |-> JStr(S_Bar)])]

PermBlock(perms) == JDict([permissions |-> JList(perms), origins |-> JList(<<>>)])

\* no permission block at all
A_plain   == JDict(AddonBase(S_id_b))
\* userPermissions grants 'cookies'
A_cookies == JDict(AddonBase(S_id_a) @@ [userPermissions |-> PermBlock(<<JStr(S_cookies)>>)])
\* userPermissions grants 'storage'; an explicitly empty optionalPermissions
A_storage == JDict(AddonBase(S_id_c) @@ [userPermissions |-> PermBlock(<<JStr(S_storage)>>),
                                         optionalPermissions |-> PermBlock(<<>>)])
\* userPermissions is a list, not a mapping
A_badperm == JDict(AddonBase(S_id_b) @@ [userPermissions |-> JList(<<JStr(S_cookies)>>)])

ExtJson(addons) == FText(JDict([addons |-> JList(addons)]))

FProfile(name, ext) == [name |-> name, is_dir |-> TRUE, ext |-> ext]
FPlainFile(name)    == [name |-> name, is_dir |-> FALSE, ext |-> FMissing]
FDir(entries)       == [t |-> "dir", entries |-> entries]

F_empty     == FDir(<<>>)
F_one       == FDir(<<FProfile(S_x_dev, ExtJson(<<A_cookies>>))>>)
F_two       == FDir(<<FProfile(S_y_work, ExtJson(<<A_plain>>)), FPlainFile(S_notes),
                      FProfile(S_x_dev, ExtJson(<<A_cookies, A_storage>>))>>)
F_malformed == FDir(<<FProfile(S_x_dev, FGarbage)>>)
F_mixed     == FDir(<<FProfile(S_x_dev, FTruncated(JDict(<<>>))),
                      FProfile(S_y_work, ExtJson(<<A_plain>>))>>)
F_badperm   == FDir(<<FProfile(S_x_dev, ExtJson(<<A_plain, A_badperm>>))>>)
F_nodot     == FDir(<<FProfile(S_nodot, ExtJson(<<A_plain>>))>>)
F_nofile    == FDir(<<FProfile(S_x_dev, FMissing)>>)

\* Chromium: manifests, version directories, extension folders, profiles, roots
LMissing      == [t |-> "missing"]
LDir(files)   == [t |-> "dir", files |-> files]

VersionDir(name, manifest, en, en_US) ==
    [name |-> name, manifest |-> manifest, en |-> en, en_US |-> en_US]

Folder(name, versions) == [name |-> name, is_dir |-> TRUE, versions |-> versions]

ProfileDir(extensions, network, legacy) ==
    [extensions |-> extensions, network |-> network, legacy |-> legacy]

EDir(entries) == [t |-> "dir", entries |-> entries]

\* An info_cache mapping: a dict whose keys() come in the order of the file
InfoCache(order) ==
    [t |-> "dict", v |-> [k \in {order[i] : i \in 1..Len(order)} |-> JDict(<<>>)],
     order |-> order]

LocalState(order) == FText(JDict([profile |-> JDict([info_cache |-> InfoCache(order)])]))

CRoot(local_state, profiles) ==
    [t |-> "dir", local_state |-> local_state, profiles |-> profiles]

M_cookies == FText(JDict([name |-> JStr(S_Ad), description |-> JStr(S_Bar),
                          permissions |-> JList(<<JStr(S_cookies)>>)]))
M_plain   == FText(JDict([name |-> JStr(S_Bar), author |-> JStr(S_Ad)]))
M_msg     == FText(JDict([name |-> JStr(S_MSG_foo), description |-> JStr(S_MSG_Foo),
                          permissions |-> JList(<<>>)]))

E_cookies == Folder(S_abc, <<VersionDir(S_ver, M_cookies, LMissing, LMissing)>>)
E_plain   == Folder(S_def, <<VersionDir(S_v1, M_plain, LMissing, LMissing)>>)
E_msg     == Folder(S_def, <<VersionDir(S_v1, M_msg,
                                        LDir(<<FText(JDict(S_foo :> Message(S_Bar)))>>), LMissing)>>)
E_corrupt == Folder(S_abc, <<VersionDir(S_v1, FGarbage, LMissing, LMissing)>>)
E_hollow  == Folder(S_abc, <<>>)
E_Temp    == Folder(S_Temp, <<>>)

\* The network state of a profile that talked to a.io for extension abc
N_abc == FText(NetworkState(<<ServerEntry(S_server_a, JList(<<Token(S_ext_abc)>>))>>, <<>>))

P_cookies == ProfileDir(EDir(<<E_cookies, E_Temp>>), FMissing, FMissing)
P_pair    == ProfileDir(EDir(<<E_msg, E_cookies>>), N_abc, FMissing)
P_corrupt == ProfileDir(EDir(<<E_corrupt>>), FMissing, FMissing)
P_hollow  == ProfileDir(EDir(<<E_hollow, E_plain>>), FMissing, FMissing)
P_binary  == ProfileDir(EDir(<<E_plain>>), FBinary, FMissing)
P_fresh   == ProfileDir(DMissing, FMissing, FMissing)

C_nolocal   == CRoot(FMissing, <<>>)
C_badlocal  == CRoot(FGarbage, <<>>)
C_nokey     == CRoot(FText(JDict(<<>>)), <<>>)
C_one       == CRoot(LocalState(<<S_Default>>), S_Default :> P_cookies)
C_pair      == CRoot(LocalState(<<S_P1, S_Default>>), (S_Default :> P_pair) @@ (S_P1 :> P_fresh))
C_corrupt1  == CRoot(LocalState(<<S_Default, S_P1>>), (S_Default :> P_corrupt) @@ (S_P1 :> P_cookies))
C_corrupt2  == CRoot(LocalState(<<S_P1, S_Default>>), (S_Default :> P_corrupt) @@ (S_P1 :> P_cookies))
C_hollow    == CRoot(LocalState(<<S_Default, S_P1>>), (S_Default :> P_hollow) @@ (S_P1 :> P_cookies))
C_binary    == CRoot(LocalState(<<S_Default>>), S_Default :> P_binary)

FirefoxRoots  == {DMissing, DDenied, F_empty, F_one, F_two, F_malformed, F_mixed,
                  F_badperm, F_nodot, F_nofile}

ChromiumRoots == {DMissing, C_nolocal, C_badlocal, C_nokey, C_one, C_pair,
                  C_corrupt1, C_corrupt2, C_hollow, C_binary}

\* The machines of Spec: every platform and environment, a few directories
UserDirs ==
    {[firefox |-> f, chrome |-> c, edge |-> e] :
        f \in {DMissing, F_empty, F_one}, c \in {DMissing, C_one}, e \in {DMissing, C_pair}}

\* The machines of SpecFirefox: Firefox directories of every kind, for users
\* who never ran another browser
FirefoxUserDirs ==
    {[firefox |-> f, chrome |-> DMissing, edge |-> DMissing] : f \in FirefoxRoots}

\* The machines of SpecChromium: Chrome or Edge directories of every kind,
\* and a Firefox profile root without profiles
ChromiumUserDirs ==
    {[firefox |-> F_empty, chrome |-> c, edge |-> DMissing] : c \in ChromiumRoots}
    \cup {[firefox |-> F_empty, chrome |-> DMissing, edge |-> c] : c \in ChromiumRoots}

\* The environments in which the Scanner can be constructed
Constructible ==
    \/ platform = "win32" /\ system_drive
    \/ platform \in {"linux", "darwin"} /\ binaries = Browsers
    \/ platform = "other"

\* The machine before the Scanner is constructed, its file system one of files
InitFiles(files) ==
    /\ platform \in {"win32", "linux", "darwin", "other"}
    /\ system_drive \in BOOLEAN
    /\ platform # "win32" => system_drive = FALSE
    /\ cwd_root \in BOOLEAN
    /\ platform \notin {"linux", "darwin"} => cwd_root = TRUE
    /\ binaries \in SUBSET Browsers
    /\ os_users \in SeqsUpTo(Users, MaxUsers)
    /\ fs \in files
    /\ stage = "new"
    /\ has_firefox = FALSE /\ has_chrome = FALSE /\ has_edge = FALSE
    /\ user_list = <<>> /\ ui = 0 /\ loader_list = <<>> /\ result = <<>>
    /\ raised = "none"
    /\ calls = [b \in Browsers |-> 0]
    /\ opened = <<>>
    /\ arg = [t |-> "null"] /\ ret = [t |-> "null"]

InitMachine(dirs) == InitFiles([Users -> dirs])

Init == InitMachine(UserDirs)

Spec == Init /\ [][Next]_vars

InitFirefox ==
    /\ InitMachine(FirefoxUserDirs)
    /\ Constructible /\ cwd_root /\ platform # "other"
    /\ "firefox" \in binaries

SpecFirefox == InitFirefox /\ [][Next]_vars

InitChromium ==
    /\ InitMachine(ChromiumUserDirs)
    /\ Constructible /\ cwd_root /\ platform # "other"
    /\ binaries \in {{"chrome"}, {"edge"}, {"chrome", "edge"}, Browsers}

SpecChromium == InitChromium /\ [][Next]_vars

----------------------------------------------------------------------------
(* Machines whose artifacts are all readable, listed by the file system in *)
(* every order.                                                            *)

\* The sequences over S of length at most n that name no entry twice
DistinctSeqs(S, n) ==
    {q \in SeqsUpTo(S, n) : \A i, j \in 1..Len(q) : i # j => q[i].name # q[j].name}

FP_dev   == FProfile(S_x_dev, ExtJson(<<A_cookies>>))
FP_work  == FProfile(S_y_work, ExtJson(<<A_plain>>))
\* 'x.dev.1' follows 'x.dev' as a name and precedes it as a path
FP_dev1  == FProfile(S_x_dev_1, ExtJson(<<A_storage>>))

ListedFirefoxRoots ==
    {FDir(q) : q \in DistinctSeqs({FP_dev, FP_work, FP_dev1, FPlainFile(S_notes)}, MaxEntries)}

M_theme  == FText(JDict([name |-> JStr(S_Ad), type |-> JStr(S_theme),
                         permissions |-> JList(<<JStr(S_tabs)>>)]))

Cat_Bar  == LDir(<<FText(JDict(S_foo :> Message(S_Bar)))>>)
Cat_Baz  == LDir(<<FText(JDict(S_foo :> Message(S_Baz)))>>)

\* Two version directories, listed newest first and oldest first
E_two     == Folder(S_ghi, <<VersionDir(S_v2, M_cookies, LMissing, LMissing),
                             VersionDir(S_v1, M_plain, LMissing, LMissing)>>)
E_owt     == Folder(S_ghi, <<VersionDir(S_v1, M_plain, LMissing, LMissing),
                             VersionDir(S_v2, M_cookies, LMissing, LMissing)>>)
E_theme   == Folder(S_jkl, <<VersionDir(S_v1, M_theme, LMissing, LMissing)>>)
E_msgUS   == Folder(S_mno, <<VersionDir(S_v1, M_msg, LMissing, Cat_Baz)>>)
E_msgBoth == Folder(S_mno, <<VersionDir(S_v1, M_msg, Cat_Bar, Cat_Baz)>>)

ListedFolders ==
    {E_cookies, E_plain, E_msg, E_Temp, E_two, E_owt, E_theme, E_msgUS, E_msgBoth}

\* A network state that names an extension that is not installed, a web
\* origin, and, among the broken services, extension abc
N_mixed ==
    FText(NetworkState(<<ServerEntry(S_server_a, JList(<<Token(S_chrome_ext \o <<"z","z","z">>)>>)),
                         ServerEntry(S_server_a, JList(<<Token(S_web_origin)>>))>>,
                       <<BrokenEntry(S_host_c, JList(<<Token(S_ext_abc)>>))>>))

\* Profiles of two extensions with the network state at either path, or at none
NetworkedProfiles ==
    {ProfileDir(EDir(<<E_plain, E_cookies>>), n, l) :
        n \in {FMissing, N_mixed}, l \in {FMissing, N_abc}}

ListedChromiumRoots ==
    {CRoot(LocalState(<<S_Default>>), S_Default :> ProfileDir(EDir(q), N_abc, FMissing)) :
        q \in DistinctSeqs(ListedFolders, MaxEntries)}
    \cup {CRoot(LocalState(<<S_Default>>), S_Default :> d) : d \in NetworkedProfiles}

\* The machines of SpecArtifacts: one user's Firefox or Chrome directory of
\* every listing, the other user's directories fixed
ListedUserDirs ==
    {[firefox |-> f, chrome |-> DMissing, edge |-> DMissing] : f \in ListedFirefoxRoots}
    \cup {[firefox |-> F_empty, chrome |-> c, edge |-> C_one] : c \in ListedChromiumRoots}

\* alice's directories vary, bob's are fixed
ListedFiles ==
    {[u \in Users |-> IF u = "alice" THEN d
                      ELSE [firefox |-> F_one, chrome |-> C_one, edge |-> DMissing]] :
        d \in ListedUserDirs}

InitArtifacts ==
    /\ InitFiles(ListedFiles)
    /\ Constructible /\ cwd_root /\ platform # "other"

SpecArtifacts == InitArtifacts /\ [][Next]_vars

----------------------------------------------------------------------------
(* Properties of the scan. *)

\* The directory the loader of browser b reads for a user.
UserRoot(username, b) ==
    DirAt([user |-> username, browser |-> b, relative |-> platform # "win32"])

\* What a user's directory yields when it is scanned on its own: the records
\* up to the user's first failure, and that failure.
UserAlone(username, b) ==
    IF b = "firefox" THEN firefox_root(username, UserRoot(username, b))
    ELSE chromium_try(username, b, UserRoot(username, b))

\* The records of the users of a list, user after user.
RECURSIVE RecordsOfUsers(_, _)
RecordsOfUsers(users, b) ==
    IF Len(users) = 0 THEN <<>>
    ELSE UserAlone(users[1], b).records \o RecordsOfUsers(Tail(users), b)

InChromium == stage \in {"in_chrome", "in_edge"}

Running == CASE stage = "in_firefox" -> "firefox" [] stage = "in_chrome" -> "chrome"
             [] OTHER -> "edge"

\* The users the running loader has dealt with.
UsersDone == SubSeq(user_list, 1, ui - 1)

IsIn(r, list) == \E k \in 1..Len(list) : list[k] = r

\* C1: in the Chromium loader a user's failure is caught and the loader goes on
\* to the next user: the loader never raises, and its list holds the records of
\* every user it has dealt with, failed users' neighbours included.
C1_ChromiumUserIsolation ==
    InChromium =>
        /\ raised = "none"
        /\ loader_list = RecordsOfUsers(UsersDone, Running)

\* The Chromium loader has finished a list whose first user failed and whose
\* second user has records, and the list holds them.
C1_Witness ==
    /\ InChromium /\ Len(user_list) = 2 /\ ui = 3
    /\ UserAlone(user_list[1], Running).exc # "none"
    /\ UserAlone(user_list[2], Running).exc = "none"
    /\ Len(UserAlone(user_list[2], Running).records) > 0
    /\ \A k \in 1..Len(UserAlone(user_list[2], Running).records) :
          IsIn(UserAlone(user_list[2], Running).records[k], loader_list)

\* C2: in the Firefox loader a user whose artifacts fail is skipped: the loader
\* does not raise, and its list holds the records of every other user it has
\* dealt with.
C2_FirefoxUserIsolation ==
    stage = "in_firefox" =>
        /\ raised = "none"
        /\ \A i \in 1..(ui - 1) :
              UserAlone(user_list[i], "firefox").exc = "none" =>
                \A k \in 1..Len(UserAlone(user_list[i], "firefox").records) :
                    IsIn(UserAlone(user_list[i], "firefox").records[k], loader_list)

\* The profiles of a user's Local State, <<>> when it cannot be read.
ProfilesOf(root) ==
    IF root.t = "missing" \/ ReadJson(root.local_state).exc # "none" THEN <<>>
    ELSE IF chrome_profiles(ReadJson(root.local_state).val).exc # "none" THEN <<>>
    ELSE chrome_profiles(ReadJson(root.local_state).val).val

\* C3: failure isolation is per profile: the records of every profile of a user
\* the loader has dealt with are in the loader's list, also when another
\* profile of that user holds a corrupt artifact.
C3_ProfileIsolation ==
    InChromium =>
        \A i \in 1..(ui - 1) :
            LET root == UserRoot(user_list[i], Running)
                ps   == ProfilesOf(root)
            IN  \A j \in 1..Len(ps) :
                  LET own == chromium_profile(user_list[i], Running, root, ps[j]).records
                  IN  \A k \in 1..Len(own) : IsIn(own[k], loader_list)

\* C4: browser detection is never fatal: constructing the Scanner raises
\* nothing, on every platform and whether or not a binary is found.
C4_DetectionNeverRaises ==
    stage = "new" => raised = "none"

Rank(r) == CASE r.browser_short = "Firefox" -> 1 [] r.browser_short = "Chrome" -> 2
             [] OTHER -> 3

\* The list scan() returns when every detected loader returns its users' records.
ExpectedScan ==
    (IF has_firefox THEN RecordsOfUsers(user_list, "firefox") ELSE <<>>)
    \o (IF has_chrome THEN RecordsOfUsers(user_list, "chrome") ELSE <<>>)
    \o (IF has_edge THEN RecordsOfUsers(user_list, "edge") ELSE <<>>)

\* C5: scan() invokes a loader only for a detected browser and at most once,
\* each over the same user list, and returns the concatenation Firefox, Chrome,
\* Edge: no record of a later family precedes one of an earlier family.
C5_LoadersInOrder ==
    /\ \A b \in Browsers : calls[b] <= 1 /\ (calls[b] = 1 => Has(b))
    /\ \A i, j \in 1..Len(result) : i < j => Rank(result[i]) <= Rank(result[j])
    /\ stage = "done" =>
          /\ \A b \in Browsers : calls[b] = IF Has(b) THEN 1 ELSE 0
          /\ result = ExpectedScan

\* A scan has returned records of all three families.
C5_Witness ==
    /\ stage = "done"
    /\ \A n \in 1..3 : \E i \in 1..Len(result) : Rank(result[i]) = n
    /\ \A b \in Browsers : calls[b] = 1

\* C8: the risk flag of every record is classify applied to the record's own
\* declared permission set, its user_permissions.
C8_RiskOfDeclared ==
    /\ \A i \in 1..Len(loader_list) :
          Ok(loader_list[i].risk) = calculate_risk(loader_list[i].user_permissions)
    /\ \A i \in 1..Len(result) :
          Ok(result[i].risk) = calculate_risk(result[i].user_permissions)

\* A permission block of an addon is a mapping, or there is none.
ValidBlock(addon, key) == DictGet(addon, key, JNone).t \in {"null", "dict"}

ValidAddon(addon) ==
    /\ addon.t = "dict"
    /\ ValidBlock(addon, "permissions") /\ ValidBlock(addon, "userPermissions")
    /\ ValidBlock(addon, "optionalPermissions")
    /\ DictGet(addon, "defaultLocale", JDict(<<>>)).t = "dict"

\* A valid extensions.json: a JSON object whose 'addons' is a list of addons.
ValidExtJson(f) ==
    /\ f.t = "json" /\ f.doc.t = "dict"
    /\ "addons" \in DOMAIN f.doc.v /\ f.doc.v["addons"].t = "list"
    /\ \A k \in 1..Len(f.doc.v["addons"].v) : ValidAddon(f.doc.v["addons"].v[k])

\* A profile root all of whose discovered extensions.json files are valid.
ValidFirefoxRoot(root) ==
    /\ root.t = "dir"
    /\ \A k \in 1..Len(root.entries) :
          IsProfileWithFile(root.entries[k]) => ValidExtJson(root.entries[k].ext)

\* The number of addon entries in the discovered files of a profile root.
RECURSIVE AddonCount(_)
AddonCount(entries) ==
    IF Len(entries) = 0 THEN 0
    ELSE (IF IsProfileWithFile(entries[1]) THEN Len(entries[1].ext.doc.v["addons"].v) ELSE 0)
         + AddonCount(Tail(entries))

RECURSIVE AddonTotal(_)
AddonTotal(users) ==
    IF Len(users) = 0 THEN 0
    ELSE AddonCount(UserRoot(users[1], "firefox").entries) + AddonTotal(Tail(users))

\* C11: when every discovered extensions.json is valid, whatever the names of
\* the profile directories, the Firefox loader emits as many records as there
\* are entries in the 'addons' arrays of the files of the users it has dealt
\* with, and it does not stop before the last user.
C11_FirefoxRecordCount ==
    (/\ stage = "in_firefox"
     /\ \A i \in 1..Len(user_list) : ValidFirefoxRoot(UserRoot(user_list[i], "firefox")))
        => /\ raised = "none"
           /\ Len(loader_list) = AddonTotal(UsersDone)

\* The loader has dealt with the first user of its list, and no other.
FirstUserDone == ui = 2 /\ Len(user_list) >= 1

\* The path of a profile's extensions.json below the profile root.
PathKey(name) == name \o <<Sep>> \o S_ext_json

ListsAddon(entry, id) ==
    /\ IsProfileWithFile(entry)
    /\ \E k \in 1..Len(entry.ext.doc.v["addons"].v) :
          DictGet(entry.ext.doc.v["addons"].v[k], "id", JStr(S_empty)) = id

\* The name of the profile directory whose file lists the addon of a record.
SourceName(r) ==
    LET entries == UserRoot(r.username, "firefox").entries
    IN  entries[CHOOSE k \in 1..Len(entries) : ListsAddon(entries[k], r.extension_id)].name

\* C12: the order of processing does not depend on the order of the listing:
\* a user's Firefox records come in ascending order of the full path of the
\* file they are from, the records of a Chromium profile in ascending order of
\* the name of their folder, and no Chromium record is of a folder named 'Temp'.
C12_DeterministicOrder ==
    /\ (stage = "in_firefox" /\ FirstUserDone) =>
          \A i, j \in 1..Len(loader_list) :
              i < j => ~StrLess(PathKey(SourceName(loader_list[j])),
                                PathKey(SourceName(loader_list[i])))
    /\ (InChromium /\ FirstUserDone) =>
          \A i, j \in 1..Len(loader_list) :
              (i < j /\ loader_list[i].profile = loader_list[j].profile)
                  => ~StrLess(loader_list[j].extension_id.v, loader_list[i].extension_id.v)
    /\ \A i \in 1..Len(loader_list) :
          loader_list[i].browser_short # "Firefox" => loader_list[i].extension_id # JStr(S_Temp)
    /\ \A i \in 1..Len(result) :
          result[i].browser_short # "Firefox" => result[i].extension_id # JStr(S_Temp)

\* The Chrome loader has emitted two records for a profile whose Extensions
\* directory lists the two folders in descending order of their names.
C12_Witness ==
    /\ stage = "in_chrome" /\ FirstUserDone /\ Len(loader_list) = 2
    /\ LET listed == UserRoot(user_list[1], "chrome").profiles[S_Default].extensions.entries
       IN  /\ Len(listed) = 2
           /\ StrLess(listed[2].name, listed[1].name)
           /\ loader_list[1].extension_id = JStr(listed[2].name)
           /\ loader_list[2].extension_id = JStr(listed[1].name)

\* What identifies a record within a scan.
RecordKey(r) == <<r.username, r.browser_short, r.profile, r.extension_id>>

\* C14: in the list a scan returns no two records have the same username,
\* browser family, profile and extension identifier.
C14_UniqueRecords ==
    stage = "done" =>
        \A i, j \in 1..Len(result) : i # j => RecordKey(result[i]) # RecordKey(result[j])

\* The addon entry a Firefox record was made from.
AddonOf(r) ==
    LET entries == UserRoot(r.username, "firefox").entries
        addons  == entries[CHOOSE k \in 1..Len(entries) :
                               ListsAddon(entries[k], r.extension_id)].ext.doc.v["addons"].v
    IN  addons[CHOOSE k \in 1..Len(addons) :
                   DictGet(addons[k], "id", JStr(S_empty)) = r.extension_id]

FamilyOf(r) == IF r.browser_short = "Chrome" THEN "chrome" ELSE "edge"

\* The version directories of the folder a Chromium record was made from.
VersionsOf(r) ==
    LET entries == UserRoot(r.username, FamilyOf(r)).profiles[r.profile.v].extensions.entries
    IN  entries[CHOOSE k \in 1..Len(entries) : entries[k].name = r.extension_id.v].versions

\* The manifest a Chromium record was made from: that of the first version
\* directory listed.
ManifestOf(r) == VersionsOf(r)[1].manifest.doc

\* The field is absent when the artifact has no block, and a permission set
\* with an empty sequence when the block grants the empty list.
AbsenceKept(block, field) ==
    /\ block = JNone => field = JNone
    /\ (block # JNone /\ DictGet(block, "permissions", JNone) = JList(<<>>))
          => (field # JNone /\ field.permission = JList(<<>>))

\* The permissions block of a manifest: none when the manifest declares
\* neither permissions nor host permissions.
ManifestBlock(manifest) ==
    IF DOMAIN manifest.v \cap {"permissions", "hostPermissions"} = {} THEN JNone
    ELSE manifest_perms(manifest)

\* C15: absence of permissions is kept apart from emptiness in every record:
\* no permissions block in the artifact gives an absent field, an explicitly
\* empty list gives a permission set with an empty sequence, for Firefox
\* userPermissions and optionalPermissions and for Chromium manifests.
C15_AbsenceKept ==
    \A i \in 1..Len(loader_list) :
        IF loader_list[i].browser_short = "Firefox"
        THEN /\ AbsenceKept(DictGet(AddonOf(loader_list[i]), "userPermissions", JNone),
                            loader_list[i].user_permissions)
             /\ AbsenceKept(DictGet(AddonOf(loader_list[i]), "optionalPermissions", JNone),
                            loader_list[i].optional_permissions)
        ELSE AbsenceKept(ManifestBlock(ManifestOf(loader_list[i])),
                         loader_list[i].user_permissions)

\* The lexicographically first name among version directories.
FirstVersionName(versions) ==
    versions[CHOOSE k \in 1..Len(versions) :
                 \A m \in 1..Len(versions) : ~StrLess(versions[m].name, versions[k].name)].name

\* C19: when an extension folder holds several version directories, the record
\* is made from the lexicographically first of them, in whatever order the file
\* system lists them.
C19_FirstVersion ==
    \A i \in 1..Len(loader_list) :
        loader_list[i].browser_short # "Firefox" =>
            loader_list[i].version
                = JStr(strip_version(FirstVersionName(VersionsOf(loader_list[i]))))

\* The catalog of a version directory: that of _locales/en when the folder
\* exists, of _locales/en-US otherwise.
CatalogOf(version_dir) ==
    IF version_dir.en.t # "missing" THEN version_dir.en.files[1].doc
    ELSE version_dir.en_US.files[1].doc

ManifestName(r) == DictGet(ManifestOf(r), "name", JStr(S_empty))

ManifestDescription(r) == DictGet(ManifestOf(r), "description", JStr(S_empty))

\* C20: a Chromium record whose manifest name contains 'MSG' has its name and
\* description resolved in the catalog of _locales/en, of _locales/en-US when
\* there is no _locales/en, and is of kind 'app'; otherwise name and
\* description are the manifest's and the kind is the manifest's type,
\* 'extension' when it has none.
C20_NameAndKind ==
    \A i \in 1..Len(loader_list) :
        loader_list[i].browser_short # "Firefox" =>
            IF StrContains(ManifestName(loader_list[i]).v, S_MSG)
            THEN /\ Ok(loader_list[i].name.v)
                      = parse_chrome_extension_name(ManifestName(loader_list[i]).v,
                                                    CatalogOf(VersionsOf(loader_list[i])[1]))
                 /\ Ok(loader_list[i].description.v)
                      = parse_chrome_extension_description(
                            ManifestDescription(loader_list[i]).v,
                            CatalogOf(VersionsOf(loader_list[i])[1]))
                 /\ loader_list[i].extension_type = JStr(S_app)
            ELSE /\ loader_list[i].name = ManifestName(loader_list[i])
                 /\ loader_list[i].description = ManifestDescription(loader_list[i])
                 /\ loader_list[i].extension_type
                      = DictGet(ManifestOf(loader_list[i]), "type", JStr(S_extension))

----------------------------------------------------------------------------
(* The states of the machine and of the scan while a function is applied  *)
(* on its own.                                                             *)

Null == [t |-> "null"]

EnvIdle ==
    /\ platform = "linux" /\ system_drive = FALSE /\ cwd_root = TRUE
    /\ binaries = {} /\ os_users = <<>> /\ fs = <<>>

ScanIdle ==
    /\ has_firefox = FALSE /\ has_chrome = FALSE /\ has_edge = FALSE
    /\ user_list = <<>> /\ ui = 0 /\ loader_list = <<>> /\ result = <<>>
    /\ raised = "none" /\ calls = <<>> /\ opened = <<>>

----------------------------------------------------------------------------
(* The classifier applied on its own. *)

PermStrings == {S_clipboardWrite, S_all_urls, S_tabs, S_cookies, S_wild,
                S_https_wild, S_storage}

PermLists == {[i \in 1..Len(q) |-> JStr(q[i])] : q \in SeqsUpTo(PermStrings, MaxPerms)}

RiskInputs ==
    {JNone, Permission(JNone, JNone), Permission(JStr(S_tabs), JNone),
     Permission(JNum(1), JNone)}
    \cup {Permission(JList(l), JNone) : l \in PermLists}

InitRisk ==
    /\ EnvIdle /\ ScanIdle
    /\ stage = "call"
    /\ arg \in {[fn |-> "calculate_risk", permissions |-> p] : p \in RiskInputs}
    /\ ret = Null

ApplyRisk ==
    /\ stage = "call" /\ arg.fn = "calculate_risk"
    /\ ret' = calculate_risk(arg.permissions)
    /\ stage' = "returned"
    /\ UNCHANGED <<envVars, has_firefox, has_chrome, has_edge, user_list, ui,
                   loader_list, result, raised, calls, opened, arg>>

NextRisk == ApplyRisk

SpecRisk == InitRisk /\ [][NextRisk]_vars

\* The capability-permission sequence of a classifier argument, <<>> when absent.
CapabilityPerms(p) ==
    IF p # JNone /\ p.permission # JNone /\ p.permission.t = "list"
    THEN p.permission.v ELSE <<>>

\* High-risk as the specification defines it: one of the four names, or any
\* permission string that contains '://*/'.
HighRisk(s) ==
    \/ s \in {S_clipboardWrite, S_all_urls, S_tabs, S_cookies}
    \/ StrContains(s, S_wild)

RiskReturned == stage = "returned" /\ arg.fn = "calculate_risk"

ListArg == arg.permissions # JNone /\ arg.permissions.permission.t = "list"

\* C6: classify returns Flagged if and only if the capability-permission
\* sequence holds one of 'clipboardWrite', '<all_urls>', 'tabs', 'cookies' or a
\* string that contains '://*/'; otherwise, and when absent, Clear.
C6_FlaggedIffHighRisk ==
    (RiskReturned /\ (arg.permissions = JNone \/ arg.permissions.permission = JNone \/ ListArg))
        => LET perms == CapabilityPerms(arg.permissions)
           IN  /\ ret.exc = "none"
               /\ ret.val = "Flagged" <=> \E i \in 1..Len(perms) : HighRisk(perms[i].v)
               /\ ret.val = "Clear" <=> ~ \E i \in 1..Len(perms) : HighRisk(perms[i].v)

\* C7: the classifier is monotonic: a Clear sequence extended by a high-risk
\* permission is Flagged; a sequence of permissions outside the high-risk list
\* is Clear; an absent block is Clear; a Flagged sequence extended by any
\* permission stays Flagged.
C7_Monotonic ==
    RiskReturned =>
        /\ (arg.permissions = JNone \/ arg.permissions.permission = JNone)
              => ret = Ok("Clear")
        /\ ListArg =>
              LET S == arg.permissions.permission.v
                  ext(p) == Permission(JList(Append(S, JStr(p))), JNone)
              IN  /\ ret = Ok("Clear") =>
                        \A p \in {q \in PermStrings : HighRisk(q)} :
                            calculate_risk(ext(p)) = Ok("Flagged")
                  /\ (\A i \in 1..Len(S) : ~HighRisk(S[i].v)) => ret = Ok("Clear")
                  /\ ret = Ok("Flagged") =>
                        \A p \in PermStrings : calculate_risk(ext(p)) = Ok("Flagged")

----------------------------------------------------------------------------
(* The locale resolvers applied on their own. *)

CatalogKeys == {S_foo, S_other_key}

CatalogValues ==
    {Message(S_Bar), Message(S_Baz), JDict(<<>>), JStr(S_other_key), JStr(S_foo),
     JStr(S_empty), JNum(1), JNone, JList(<<JStr(S_Bar)>>)}

Catalogs ==
    UNION {{JDict(f) : f \in [D -> CatalogValues]} : D \in SUBSET CatalogKeys}

RawFields == {S_MSG_foo, S_MSG_Foo, S_foo, S_other_key}

InitLocale ==
    /\ EnvIdle /\ ScanIdle
    /\ stage = "call"
    /\ arg \in {[fn |-> f, field |-> r, messages |-> m] :
                  f \in {"parse_chrome_extension_name",
                          "parse_chrome_extension_description"},
                  r \in RawFields, m \in Catalogs}
    /\ ret = Null

ApplyName ==
    /\ stage = "call" /\ arg.fn = "parse_chrome_extension_name"
    /\ ret' = parse_chrome_extension_name(arg.field, arg.messages)
    /\ stage' = "returned"
    /\ UNCHANGED <<envVars, has_firefox, has_chrome, has_edge, user_list, ui,
                   loader_list, result, raised, calls, opened, arg>>

ApplyDescription ==
    /\ stage = "call" /\ arg.fn = "parse_chrome_extension_description"
    /\ ret' = parse_chrome_extension_description(arg.field, arg.messages)
    /\ stage' = "returned"
    /\ UNCHANGED <<envVars, has_firefox, has_chrome, has_edge, user_list, ui,
                   loader_list, result, raised, calls, opened, arg>>

NextLocale == ApplyName \/ ApplyDescription

SpecLocale == InitLocale /\ [][NextLocale]_vars

LocaleReturned ==
    /\ stage = "returned"
    /\ arg.fn \in {"parse_chrome_extension_name", "parse_chrome_extension_description"}

\* The placeholder '__MSG_foo__', in either capitalisation of its key.
FooPlaceholder == arg.field \in {S_MSG_foo, S_MSG_Foo}

HasKey(k)  == k \in DOMAIN arg.messages.v

\* C9: for both resolvers and the placeholder '__MSG_foo__': a catalog mapping
\* the lower-cased key to {message: 'Bar'} resolves to 'Bar'; a catalog mapping
\* it to the string 'other_key', with 'other_key' mapping to {message: 'Baz'},
\* resolves to 'Baz'; with 'other_key' not in the catalog the result is the
\* string 'other_key'.
C9_LocaleRoundTrip ==
    (LocaleReturned /\ FooPlaceholder /\ HasKey(S_foo)) =>
        /\ arg.messages.v[S_foo] = Message(S_Bar) => ret = Ok(S_Bar)
        /\ (/\ arg.messages.v[S_foo] = JStr(S_other_key)
            /\ HasKey(S_other_key)
            /\ arg.messages.v[S_other_key] = Message(S_Baz)) => ret = Ok(S_Baz)
        /\ (/\ arg.messages.v[S_foo] = JStr(S_other_key)
            /\ ~HasKey(S_other_key)) => ret = Ok(S_other_key)

\* A nested catalog has been resolved through its second lookup by each resolver.
C9_Witness ==
    /\ LocaleReturned /\ arg.field = S_MSG_Foo
    /\ HasKey(S_foo) /\ arg.messages.v[S_foo] = JStr(S_other_key)
    /\ HasKey(S_other_key) /\ arg.messages.v[S_other_key] = Message(S_Baz)
    /\ ret = Ok(S_Baz)

\* The key the resolvers look up: the field without '__MSG_' and '__'.
FieldKey == RemoveSuffix(RemovePrefix(arg.field, S_MSG_prefix), S_MSG_suffix)

\* What the first lookup yields.
FirstLookup == DictGet(arg.messages, Lower(FieldKey), JStr(FieldKey))

\* A structured entry with a 'message' field.
IsEntry(x) == x.t = "dict" /\ K_message \in DOMAIN x.v

\* The second lookup finds a value, and it is not a structured entry.
NestedOtherShape ==
    /\ FirstLookup.t = "str"
    /\ FirstLookup.v \in DOMAIN arg.messages.v
    /\ ~IsEntry(arg.messages.v[FirstLookup.v])

\* C18: the resolvers fail with TypeError, and with no other error and no
\* value, when the first lookup yields neither a structured entry nor a
\* string, and when the nested lookup yields a value that is not a structured
\* entry with a 'message' field.
C18_UnexpectedShape ==
    LocaleReturned =>
        /\ FirstLookup.t \notin {"dict", "str"} => ret = Raise("TypeError")
        /\ NestedOtherShape => ret = Raise("TypeError")

----------------------------------------------------------------------------
(* The connection extractor applied on its own. *)

ServerEntries ==
    {ServerEntry(S_server_a, JList(<<Token(S_ext_abc)>>)),
     ServerEntry(S_server_b, JList(<<Token(S_ext_abc)>>)),
     ServerEntry(S_server_a, JList(<<Token(S_web_origin)>>)),
     ServerEntry(S_server_a, JList(<<TokenBadB64>>)),
     ServerEntry(S_server_a, JList(<<>>)),
     JDict([server |-> JStr(S_server_a)])}

BrokenEntries ==
    {BrokenEntry(S_host_c, JList(<<Token(S_ext_abc)>>)),
     BrokenEntry(S_host_c, JList(<<TokenBadUtf8>>)),
     JDict([host |-> JStr(S_host_c)])}

NetDocs ==
    {NetworkState(a, b) : a \in SeqsUpTo(ServerEntries, MaxEntries),
                          b \in SeqsUpTo(BrokenEntries, MaxEntries)}
    \cup {JDict(<<>>), JList(<<>>)}

BrokenFiles == {FDenied, FBinary, FGarbage}

NetFiles == BrokenFiles \cup {FText(d) : d \in NetDocs} \cup {FTruncated(d) : d \in NetDocs}

\* A file that would give a connection, were it the one read.
GoodNetFile ==
    FText(NetworkState(<<ServerEntry(S_server_a, JList(<<Token(S_ext_abc)>>))>>, <<>>))

ProfileDirs ==
    {[network |-> FMissing, legacy |-> f] : f \in NetFiles \cup {FMissing}}
    \cup {[network |-> f, legacy |-> g] : f \in NetFiles, g \in {FMissing, GoodNetFile}}

InitConn ==
    /\ EnvIdle /\ ScanIdle
    /\ stage = "call"
    /\ arg \in {[fn |-> "get_chromium_connections", profile |-> d] : d \in ProfileDirs}
    /\ ret = Null

ApplyConnections ==
    /\ stage = "call" /\ arg.fn = "get_chromium_connections"
    /\ ret' = get_chromium_connections(arg.profile)
    /\ stage' = "returned"
    /\ UNCHANGED <<envVars, has_firefox, has_chrome, has_edge, user_list, ui,
                   loader_list, result, raised, calls, opened, arg>>

NextConn == ApplyConnections

SpecConn == InitConn /\ [][NextConn]_vars

ConnReturned == stage = "returned" /\ arg.fn = "get_chromium_connections"

\* The file the extractor selects: the first of the two paths that exists.
SelectedFile ==
    IF Exists(arg.profile.network) THEN arg.profile.network ELSE arg.profile.legacy

\* C10: the extractor returns an empty sequence and never raises when the
\* network-state file is missing at both paths, is truncated, is not valid
\* JSON, or cannot be read or decoded as text.
C10_EmptyOnUnreadable ==
    (ConnReturned /\ SelectedFile.t \in {"missing", "truncated", "garbage", "denied", "binary"})
        => ret = Ok(<<>>)

\* The entries of a sub-collection of the document read, <<>> when it has none.
EntriesOf(doc, key) ==
    DictGet(DictGet(DictGet(doc, "net", JDict(<<>>)), "http_server_properties", JDict(<<>>)),
            key, JList(<<>>)).v

\* An extension-correlated entry: its anonymization list is not empty and its
\* first token is base64 of UTF-8 text that contains 'chrome-extension://'.
Correlated(entry) ==
    /\ "anonymization" \in DOMAIN entry.v
    /\ entry.v["anonymization"].t = "list" /\ Len(entry.v["anonymization"].v) > 0
    /\ entry.v["anonymization"].v[1].t = "token"
    /\ entry.v["anonymization"].v[1].b64 = "ok"
    /\ StrContains(entry.v["anonymization"].v[1].text, S_chrome_ext)

CorrelatedOnly(entries) == SelectSeq(entries, Correlated)

ParsedDoc == ConnReturned /\ SelectedFile.t = "json" /\ SelectedFile.doc.t = "dict"

\* C16: only entries with a non-empty anonymization list are tested; an entry
\* whose list is absent or empty, whose first token does not decode, or whose
\* text lacks 'chrome-extension://' gives no Connection and raises nothing, and
\* the other entries of both sub-collections are still extracted.
C16_UncorrelatedSkipped ==
    ParsedDoc =>
        /\ ret.exc = "none"
        /\ Len(ret.val) = Len(CorrelatedOnly(EntriesOf(SelectedFile.doc, "servers")))
                          + Len(CorrelatedOnly(EntriesOf(SelectedFile.doc, "broken_alternative_services")))

S_scheme_sep == <<":","/","/">>

\* What follows the first occurrence of sep in s, s when there is none.
RECURSIVE AfterFirst(_, _)
AfterFirst(s, sep) ==
    IF ~StrContains(s, sep) THEN s
    ELSE IF StartsWith(s, sep) THEN Slice(s, Len(sep) + 1, Len(s) - Len(sep))
    ELSE AfterFirst(Tail(s), sep)

\* The server field without its scheme prefix, whatever the scheme, and
\* without its port.
HostOf(server) == SplitFirst(AfterFirst(server, S_scheme_sep), S_colon)

ActiveOf(entries) ==
    [k \in 1..Len(entries) |-> Connection(HostOf(entries[k].v["server"].v), TRUE)]

BrokenOf(entries) ==
    [k \in 1..Len(entries) |-> Connection(entries[k].v["host"].v, FALSE)]

\* C17: the Connections are those of the extension-correlated entries: for a
\* 'servers' entry active with the server's host, scheme and port removed, for
\* a 'broken_alternative_services' entry not active with the host field; the
\* active ones first, each group in the order of its entries.
C17_ConnectionContent ==
    (ParsedDoc /\ ret.exc = "none") =>
        ret.val = ActiveOf(CorrelatedOnly(EntriesOf(SelectedFile.doc, "servers")))
                  \o BrokenOf(CorrelatedOnly(EntriesOf(SelectedFile.doc,
                                                        "broken_alternative_services")))

----------------------------------------------------------------------------
(* The connections of the records of a scan. *)

\* The profile directory a Chromium record was made in.
ProfileDirOf(r) == UserRoot(r.username, FamilyOf(r)).profiles[r.profile.v]

\* The network-state document of a profile directory, an empty one when
\* neither path has a file.
NetworkDocOf(profile_dir) ==
    IF Exists(profile_dir.network) THEN profile_dir.network.doc
    ELSE IF Exists(profile_dir.legacy) THEN profile_dir.legacy.doc
    ELSE JDict(<<>>)

\* The Connections of every extension-correlated entry of a profile.
ConnectionsOfProfile(profile_dir) ==
    ActiveOf(CorrelatedOnly(EntriesOf(NetworkDocOf(profile_dir), "servers")))
    \o BrokenOf(CorrelatedOnly(EntriesOf(NetworkDocOf(profile_dir),
                                          "broken_alternative_services")))

\* C21: the connections of a Chromium record depend on its profile directory
\* only: two records of the same user, browser and profile carry the same
\* sequence, that of every extension-correlated entry of the profile's
\* network-state file, whichever extension the token names.
C21_ConnectionsPerProfile ==
    \A i \in 1..Len(loader_list) :
        loader_list[i].browser_short # "Firefox" =>
            /\ loader_list[i].connections = ConnectionsOfProfile(ProfileDirOf(loader_list[i]))
            /\ \A j \in 1..Len(loader_list) :
                  (/\ loader_list[j].username = loader_list[i].username
                   /\ loader_list[j].browser_short = loader_list[i].browser_short
                   /\ loader_list[j].profile = loader_list[i].profile)
                      => loader_list[j].connections = loader_list[i].connections

\* Two records of one profile, neither of the extension the first token of
\* the network state names, carry the profile's two connections.
C21_Witness ==
    /\ stage = "in_chrome" /\ Len(loader_list) = 2
    /\ loader_list[1].extension_id # loader_list[2].extension_id
    /\ loader_list[1].profile = loader_list[2].profile
    /\ loader_list[1].username = loader_list[2].username
    /\ ProfileDirOf(loader_list[1]).network = N_mixed
    /\ loader_list[1].connections
          = <<Connection(<<"a", ".", "i", "o">>, TRUE), Connection(S_host_c, FALSE)>>
    /\ loader_list[2].connections = loader_list[1].connections

----------------------------------------------------------------------------
(* The files a loader opens. *)

\* C22: during the run of one loader no artifact file is opened twice, neither
\* a user's Local State, nor an extensions.json, nor a manifest.json, nor a
\* profile's network-state file, however many extensions the profile holds.
C22_ReadOnce ==
    \A i \in 1..Len(opened) : \A j \in 1..Len(opened) :
        opened[i] = opened[j] => i = j

----------------------------------------------------------------------------
(* The version string of a Chromium record, computed on its own. *)

VersionChars == {"1", ".", "_", "0"}

VersionNames == SeqsUpTo(VersionChars, MaxVersionLen) \ {<<>>}

InitVersion ==
    /\ EnvIdle /\ ScanIdle
    /\ stage = "call"
    /\ arg \in {[fn |-> "strip_version", extension_version |-> d] : d \in VersionNames}
    /\ ret = Null

\* version=extension_version.replace('_0', '')
ApplyVersion ==
    /\ stage = "call" /\ arg.fn = "strip_version"
    /\ ret' = Ok(strip_version(arg.extension_version))
    /\ stage' = "returned"
    /\ UNCHANGED <<envVars, has_firefox, has_chrome, has_edge, user_list, ui,
                   loader_list, result, raised, calls, opened, arg>>

NextVersion == ApplyVersion

SpecVersion == InitVersion /\ [][NextVersion]_vars

VersionReturned == stage = "returned" /\ arg.fn = "strip_version"

\* C13: the version of a record is the name of the version directory with one
\* trailing '_0' removed; nothing else is removed, an '_0' inside the name is
\* kept.
C13_TrailingSuffixOnly ==
    VersionReturned => ret = Ok(RemoveSuffix(arg.extension_version, S_rev))

====
